---- MODULE Spec2Model ----
(***************************************************************************)
(* Mesh fairing operators (operators.py): the two internal modal           *)
(* operators, mesh.fair_vertices_internal (edit mode) and                  *)
(* sculpt.fair_vertices_internal (sculpt mode), each with its worker       *)
(* thread.  One behaviour is one invocation of one of the two operators:   *)
(* the interactive thread runs invoke and then modal on every event, the   *)
(* worker thread runs WorkerThread.run; every read of the cancel flag is   *)
(* a step of its own, so cancel() can land between any two of them.        *)
(*                                                                         *)
(* geometry.fair, geometry.expand_faces, geometry.get_boundary_faces and   *)
(* types.CancellableThread / types.Continuity are not part of operators.py *)
(* and are modelled from their documented contract.                        *)
(***************************************************************************)
EXTENDS Integers, Sequences, FiniteSets, TLC

\* ------------------------------------------------------------- bounds ----

\* Number of faces of the mesh the operator works on.
NumFaces == 4

\* ---------------------------------------------------------- the mesh ----

\* The mesh is a strip of faces: face f is incident to the vertices
\* f, f+1, f+2 and shares an edge with the faces f-1 and f+1.
Faces == 1..NumFaces

Verts == 1..(NumFaces + 2)

\* v.link_faces: the faces incident to vertex v.
link_faces(v) == {f \in Faces : f <= v /\ v <= f + 2}

\* Two faces share an edge.
Adjacent(f, g) == f - g = 1 \/ g - f = 1

\* types.Continuity: the order of the constraint, POS < TANGENT < CURVATURE.
POS == 1

TANGENT == 2

CURVATURE == 3

Continuity == {POS, TANGENT, CURVATURE}

\* geometry.get_boundary_faces: the faces of F that share an edge with a
\* face outside F.
get_boundary_faces(F) == {f \in F : \E g \in Faces \ F : Adjacent(f, g)}

\* geometry.expand_faces: F grown by `rings` hops over face adjacency.
RECURSIVE expand_faces(_, _)
expand_faces(F, rings) ==
    IF rings <= 0 THEN F
    ELSE expand_faces(F \cup {g \in Faces : \E f \in F : Adjacent(f, g)},
                      rings - 1)

\* Mask values of the paint-mask layer, in tenths (0.0, 0.5, 1.0).
MaskValues == {0, 5, 10}

\* Vertex positions are abstracted to the number of fairing passes written
\* to the vertex: 0 as loaded, 1 after the pre-fair pass, 2 after the
\* requested-continuity pass.
InitialMesh == [pos |-> [v \in Verts |-> 0], tri |-> {}]

\* Status labels, in the order run() sets them.
LblNone == ""

LblInit == "Initializing BMesh"

LblAffected == "Determining which vertices are affected"

LblTriangulate == "Triangulating involved faces"

\* Mutant of LblPreFair: the pre-fair pass reuses the first label.
LblPreFair_First == "Initializing BMesh"

LblPreFair == "[Pre-Fairing] {}"

LblFair == "[Fairing] {}"

LblUpdate == "Updating the mesh"

\* Events delivered to modal(): <<type, value>>.
Events == {<<"TIMER", "NOTHING">>, <<"ESC", "PRESS">>, <<"ESC", "RELEASE">>}

NoEvent == <<"NONE", "NOTHING">>

\* The largest brush size, 0x7fffffff.
MaxBrushSize == 2147483647

\* The sculpt tools of the model; each brush tool has a brush of its own,
\* and tool_settings.sculpt.brush is the brush of the active tool.
DrawTool == "builtin_brush.Draw"

GrabTool == "builtin_brush.Grab"

ToolNames == {DrawTool, GrabTool}

\* Settings the user may have when the sculpt operator is invoked.
UserSettings ==
    {[tool |-> DrawTool, use_unified_size |-> FALSE,
      brush_size |-> [t \in ToolNames |->
                         IF t = DrawTool THEN MaxBrushSize ELSE 35]],
     [tool |-> GrabTool, use_unified_size |-> TRUE,
      brush_size |-> [t \in ToolNames |-> IF t = DrawTool THEN 50 ELSE 35]],
     [tool |-> GrabTool, use_unified_size |-> FALSE,
      brush_size |-> [t \in ToolNames |-> IF t = DrawTool THEN 50 ELSE 35]]}

\* The edit-mode operator reads no tool setting.
EditSettings ==
    [tool |-> DrawTool, use_unified_size |-> FALSE,
     brush_size |-> [t \in ToolNames |-> 50]]

NoSettings == [tool_name |-> "", use_unified_size |-> FALSE, brush_size |-> 0]

VARIABLES
    op,             \* "MESH" | "SCULPT": which internal operator is invoked
    continuity,     \* the operator's continuity property (its value)
    triangulate,    \* the edit-mode operator's triangulate property
    invert_mask,    \* the sculpt operator's invert_mask property
    wpc,            \* worker thread: position in WorkerThread.run
    cancel_event,   \* CancellableThread._cancel_event is set
    status,         \* CancellableThread status label (set_status/get_status)
    mask_layer,     \* sculpt run(): local mask_layer is not None
    assigned,       \* run(): local affected_verts is bound
    affected_verts, \* run(): local affected_verts
    involved_faces, \* edit-mode run(): local involved_faces
    triangulated,   \* bmesh.ops.triangulate was called
    fair_abort,     \* geometry.fair: its entry checkpoint saw the signal set
    bm,             \* the BMesh the worker works on
    mesh,           \* the target mesh as readers of the mesh see it
    committed,      \* the final mesh commit step was executed
    calls,          \* log of the geometry.fair invocations of this run
    mpc,            \* interactive thread: position in invoke/modal
    event,          \* the event modal() is handling
    timer,          \* the operator's timer is registered
    header_text,    \* the area's header text (<<>> when cleared)
    modal_result,   \* last value returned by invoke/modal
    dyntopo,        \* sculpt_object.use_dynamic_topology_sculpting
    tool_settings,  \* active tool, use_unified_size and brush size
    saved_settings, \* sculpt invoke(): locals tool_name, use_unified_size,
                    \* brush_size
    strokes,        \* settings each sculpt.brush_stroke was applied with
    invoke_settings, \* the tool settings as they were when invoke began
    popups          \* number of error popups displayed

vars == <<op, continuity, triangulate, invert_mask, wpc, cancel_event, status,
          mask_layer, assigned, affected_verts, involved_faces, fair_abort,
          triangulated, bm, mesh, committed, calls, mpc, event, timer,
          header_text, modal_result, dyntopo, tool_settings, saved_settings,
          strokes, invoke_settings, popups>>

props == <<op, continuity, triangulate, invert_mask>>

main_vars == <<mpc, event, timer, header_text, modal_result>>

host_vars == <<dyntopo, tool_settings, saved_settings, strokes,
               invoke_settings, popups>>

worker_vars == <<wpc, status, mask_layer, assigned, affected_verts,
                 involved_faces, triangulated, fair_abort, bm, mesh,
                 committed, calls>>

\* ------------------------------------------------- CancellableThread ----

\* is_cancelled(): the cancel event is set.
is_cancelled == cancel_event

\* is_alive(): run() has begun and has not returned.
is_alive == wpc \notin {"unstarted", "done", "raised"}

\* cancel(): sets the cancel event; value of the event afterwards.
cancel == TRUE

Init ==
    /\ op \in {"MESH", "SCULPT"}
    /\ continuity \in Continuity
    /\ triangulate \in (IF op = "MESH" THEN BOOLEAN ELSE {FALSE})
    /\ invert_mask \in (IF op = "SCULPT" THEN BOOLEAN ELSE {FALSE})
    /\ wpc = "unstarted"
    /\ cancel_event = FALSE
    /\ status = LblNone
    /\ mask_layer = FALSE
    /\ assigned = FALSE
    /\ affected_verts = {}
    /\ involved_faces = {}
    /\ triangulated = FALSE
    /\ fair_abort = FALSE
    /\ bm = InitialMesh
    /\ mesh = InitialMesh
    /\ committed = FALSE
    /\ calls = <<>>
    /\ mpc = "start"
    /\ event = NoEvent
    /\ timer = FALSE
    /\ header_text = <<>>
    /\ modal_result = "NONE"
    /\ dyntopo \in (IF op = "SCULPT" THEN BOOLEAN ELSE {FALSE})
    /\ tool_settings \in (IF op = "SCULPT" THEN UserSettings
                                            ELSE {EditSettings})
    /\ saved_settings = NoSettings
    /\ invoke_settings = tool_settings
    /\ strokes = <<>>
    /\ popups = 0

\* ------------------------------------------------------ geometry.fair ----

\* Mutant of CancelSignalArg: run() hands geometry.fair an event of its own,
\* which nobody sets.
CancelSignalArg_Fresh == FALSE

\* The cancel signal run() hands to geometry.fair: self._cancel_event.
CancelSignalArg == cancel_event

\* Mutant of PreFairArgs: the pre-fair call uses the requested continuity.
PreFairArgs_Requested == [order |-> continuity, vertex_weight |-> "UNIFORM",
                          loop_weight |-> "UNIFORM"]

\* Arguments of the pre-fair call: POS order, UNIFORM vertex and loop weights.
PreFairArgs == [order |-> POS, vertex_weight |-> "UNIFORM",
                loop_weight |-> "UNIFORM"]

\* Arguments of the second call: the operator's continuity, VORONOI vertex
\* weights and COTAN loop weights.
FairArgs == [order |-> continuity, vertex_weight |-> "VORONOI",
             loop_weight |-> "COTAN"]

\* geometry.fair is entered with `args` on affected_verts: its first
\* checkpoint reads the signal it was given.  The log entry records the
\* arguments, and the cancel flag and the positions at entry.
FairEnter(args, signal) ==
    /\ fair_abort' = signal
    /\ calls' = Append(calls,
                       [order |-> args.order,
                        vertex_weight |-> args.vertex_weight,
                        loop_weight |-> args.loop_weight,
                        verts |-> affected_verts,
                        cancelled_at_entry |-> cancel_event,
                        pos_at_entry |-> bm.pos,
                        mesh_at_entry |-> mesh.pos,
                        pos_at_return |-> bm.pos,
                        mesh_at_return |-> mesh.pos,
                        result |-> "running"])

\* geometry.fair returns `ok`.  It returns false, writing nothing, when the
\* signal was set at entry, when there is no affected vertex, when the system
\* cannot be solved or when the signal is seen at a later checkpoint; it
\* returns true after writing the solved positions (`pass` passes written)
\* onto the affected vertices.
FairReturn(ok, pass) ==
    /\ ok => (~fair_abort /\ affected_verts # {})
    /\ bm' = IF ok
             THEN [bm EXCEPT !.pos = [v \in Verts |->
                       IF v \in affected_verts THEN pass ELSE bm.pos[v]]]
             ELSE bm
    /\ calls' = [calls EXCEPT ![Len(calls)].result =
                                  IF ok THEN "true" ELSE "false",
                              ![Len(calls)].pos_at_return = bm'.pos,
                              ![Len(calls)].mesh_at_return = mesh.pos]
    /\ fair_abort' = FALSE

\* A read of the local affected_verts: the next position when it is bound,
\* an unhandled NameError that ends the thread when it is not.
ReadsAffected(next) == IF assigned THEN next ELSE "raised"

\* ------------------------------------- edit-mode WorkerThread.run --------

\* run(), lines 149-153: status, bm = bmesh.from_edit_mesh(mesh).  The BMesh
\* is the mesh's own edit BMesh: it holds what the mesh holds.
MeshRunInit ==
    /\ op = "MESH" /\ wpc = "init"
    /\ status' = LblInit
    /\ bm' = mesh
    /\ wpc' = "chk_affected"
    /\ UNCHANGED <<props, cancel_event, mask_layer, assigned, affected_verts,
                   involved_faces, triangulated, fair_abort, mesh, committed,
                   calls, main_vars, host_vars>>

\* Line 156: if not self.is_cancelled().
MeshCheckAffected ==
    /\ op = "MESH" /\ wpc = "chk_affected"
    /\ wpc' = IF ~is_cancelled THEN "affected" ELSE "chk_tri"
    /\ UNCHANGED <<props, cancel_event, status, mask_layer, assigned,
                   affected_verts, involved_faces, triangulated, fair_abort,
                   bm, mesh, committed, calls, main_vars, host_vars>>

\* Lines 157-158: the selected vertices, whatever the select flags are when
\* the worker reads them.
MeshAffected ==
    /\ op = "MESH" /\ wpc = "affected"
    /\ status' = LblAffected
    /\ \E selected \in SUBSET Verts :
          affected_verts' = {v \in Verts : v \in selected}
    /\ assigned' = TRUE
    /\ wpc' = "chk_tri"
    /\ UNCHANGED <<props, cancel_event, mask_layer, involved_faces,
                   triangulated, fair_abort, bm, mesh, committed, calls,
                   main_vars, host_vars>>

\* Mutant of MeshCheckTriangulate: the cancel flag is not consulted.
MeshCheckTriangulate_NoCancelCheck ==
    /\ op = "MESH" /\ wpc = "chk_tri"
    /\ wpc' = IF triangulate THEN "tri" ELSE "chk_pre"
    /\ UNCHANGED <<props, cancel_event, status, mask_layer, assigned,
                   affected_verts, involved_faces, triangulated, fair_abort,
                   bm, mesh, committed, calls, main_vars, host_vars>>

\* Line 161: if not self.is_cancelled() and self._triangulate.
MeshCheckTriangulate ==
    /\ op = "MESH" /\ wpc = "chk_tri"
    /\ wpc' = IF ~is_cancelled /\ triangulate THEN "tri" ELSE "chk_pre"
    /\ UNCHANGED <<props, cancel_event, status, mask_layer, assigned,
                   affected_verts, involved_faces, triangulated, fair_abort,
                   bm, mesh, committed, calls, main_vars, host_vars>>

\* Mutant of ExpandRings: one ring per continuity order.
ExpandRings_OffByOne == continuity

\* Line 169: the number of rings the boundary faces are expanded by.
ExpandRings == continuity - 1

\* Lines 165-169: the faces linked to an affected vertex, plus the boundary
\* faces of those expanded by ExpandRings rings.
InvolvedFaces(affected) ==
    LET linked == UNION {link_faces(v) : v \in affected}
    IN  linked \cup expand_faces(get_boundary_faces(linked), ExpandRings)

\* Lines 162-176: triangulate the involved faces and flush the selection.
MeshTriangulate ==
    /\ op = "MESH" /\ wpc = "tri"
    /\ status' = LblTriangulate
    /\ IF assigned
       THEN /\ involved_faces' = InvolvedFaces(affected_verts)
            /\ triangulated' = TRUE
            /\ bm' = [bm EXCEPT !.tri = bm.tri \cup involved_faces']
       ELSE UNCHANGED <<involved_faces, triangulated, bm>>
    /\ wpc' = ReadsAffected("chk_pre")
    /\ UNCHANGED <<props, cancel_event, mask_layer, assigned, affected_verts,
                   fair_abort, mesh, committed, calls, main_vars, host_vars>>

\* Lines 204-207: set the status, bm.normal_update(),
\* bmesh.update_edit_mesh(mesh): readers of the mesh see what the edit BMesh
\* holds.
MeshUpdate ==
    /\ op = "MESH" /\ wpc = "update"
    /\ status' = LblUpdate
    /\ mesh' = bm
    /\ committed' = TRUE
    /\ wpc' = "done"
    /\ UNCHANGED <<props, cancel_event, mask_layer, assigned, affected_verts,
                   involved_faces, triangulated, fair_abort, bm, calls,
                   main_vars, host_vars>>

\* ---------------------------------------- sculpt WorkerThread.run --------

\* Lines 381-391: status, a BMesh of the worker's own filled from the mesh,
\* the active paint-mask layer (or None), affected_verts = list().
SculptRunInit ==
    /\ op = "SCULPT" /\ wpc = "init"
    /\ status' = LblInit
    /\ bm' = mesh
    /\ mask_layer' \in BOOLEAN
    /\ affected_verts' = {}
    /\ assigned' = TRUE
    /\ wpc' = "chk_affected"
    /\ UNCHANGED <<props, cancel_event, involved_faces, triangulated,
                   fair_abort, mesh, committed, calls, main_vars, host_vars>>

\* Line 392: if not self.is_cancelled().
SculptCheckAffected ==
    /\ op = "SCULPT" /\ wpc = "chk_affected"
    /\ wpc' = IF ~is_cancelled THEN "affected" ELSE "chk_empty"
    /\ UNCHANGED <<props, cancel_event, status, mask_layer, assigned,
                   affected_verts, involved_faces, triangulated, fair_abort,
                   bm, mesh, committed, calls, main_vars, host_vars>>

\* Lines 397-398: the mask test of one vertex with mask value m.
PassesMask(m) == (invert_mask /\ m >= 5) \/ (~invert_mask /\ m <= 5)

\* Lines 393-399: the vertices that pass the mask test, when there is a layer.
SculptAffected ==
    /\ op = "SCULPT" /\ wpc = "affected"
    /\ status' = LblAffected
    /\ IF mask_layer
       THEN \E mask \in [Verts -> MaskValues] :
               affected_verts' = {v \in Verts : PassesMask(mask[v])}
       ELSE UNCHANGED affected_verts
    /\ wpc' = "chk_empty"
    /\ UNCHANGED <<props, cancel_event, mask_layer, assigned, involved_faces,
                   triangulated, fair_abort, bm, mesh, committed, calls,
                   main_vars, host_vars>>

\* Line 403: if not self.is_cancelled() and len(affected_verts) == 0.
SculptCheckEmpty ==
    /\ op = "SCULPT" /\ wpc = "chk_empty"
    /\ wpc' = IF ~is_cancelled /\ affected_verts = {}
              THEN "empty_cancel" ELSE "chk_pre"
    /\ UNCHANGED <<props, cancel_event, status, mask_layer, assigned,
                   affected_verts, involved_faces, triangulated, fair_abort,
                   bm, mesh, committed, calls, main_vars, host_vars>>

\* Line 404: self.cancel().
SculptEmptyCancel ==
    /\ op = "SCULPT" /\ wpc = "empty_cancel"
    /\ cancel_event' = cancel
    /\ wpc' = "chk_pre"
    /\ UNCHANGED <<props, status, mask_layer, assigned, affected_verts,
                   involved_faces, triangulated, fair_abort, bm, mesh,
                   committed, calls, main_vars, host_vars>>

\* Line 433: if not self.is_cancelled().
SculptCheckUpdate ==
    /\ op = "SCULPT" /\ wpc = "chk_update"
    /\ wpc' = IF ~is_cancelled THEN "update" ELSE "done"
    /\ UNCHANGED <<props, cancel_event, status, mask_layer, assigned,
                   affected_verts, involved_faces, triangulated, fair_abort,
                   bm, mesh, committed, calls, main_vars, host_vars>>

\* Line 435: bm.is_valid; the BMesh is the guard's, freed only when the with
\* block is left.
bm_is_valid == TRUE

\* Lines 434-437: set the status, bm.to_mesh(mesh), mesh.update().
SculptUpdate ==
    /\ op = "SCULPT" /\ wpc = "update"
    /\ status' = LblUpdate
    /\ IF bm_is_valid
       THEN mesh' = bm /\ committed' = TRUE
       ELSE UNCHANGED <<mesh, committed>>
    /\ wpc' = "done"
    /\ UNCHANGED <<props, cancel_event, mask_layer, assigned, affected_verts,
                   involved_faces, triangulated, fair_abort, bm, calls,
                   main_vars, host_vars>>

\* ------------------------------------- the two passes, both workers ------

\* Mutant of CheckPreFair: the pre-fair pass is entered whatever the cancel
\* flag.
CheckPreFair_NoCancelCheck ==
    /\ wpc = "chk_pre"
    /\ wpc' = "pre_call"
    /\ UNCHANGED <<props, cancel_event, status, mask_layer, assigned,
                   affected_verts, involved_faces, triangulated, fair_abort,
                   bm, mesh, committed, calls, main_vars, host_vars>>

\* Lines 179 / 407: if not self.is_cancelled().
CheckPreFair ==
    /\ wpc = "chk_pre"
    /\ wpc' = IF ~is_cancelled THEN "pre_call" ELSE "chk_fair"
    /\ UNCHANGED <<props, cancel_event, status, mask_layer, assigned,
                   affected_verts, involved_faces, triangulated, fair_abort,
                   bm, mesh, committed, calls, main_vars, host_vars>>

\* Lines 180-185 / 408-413: set the status and call geometry.fair.
PreFairCall ==
    /\ wpc = "pre_call"
    /\ status' = LblPreFair
    /\ IF assigned
       THEN FairEnter(PreFairArgs, CancelSignalArg)
       ELSE UNCHANGED <<fair_abort, calls>>
    /\ wpc' = ReadsAffected("pre_run")
    /\ UNCHANGED <<props, cancel_event, mask_layer, assigned, affected_verts,
                   involved_faces, triangulated, bm, mesh, committed,
                   main_vars, host_vars>>

\* Lines 181-185 / 409-413: geometry.fair returns.
PreFairReturn ==
    /\ wpc = "pre_run"
    /\ \E ok \in BOOLEAN :
          /\ FairReturn(ok, 1)
          /\ wpc' = IF ok THEN "chk_fair" ELSE "pre_failed"
    /\ UNCHANGED <<props, cancel_event, status, mask_layer, assigned,
                   affected_verts, involved_faces, triangulated, mesh,
                   committed, main_vars, host_vars>>

\* Mutant of PreFairFailed: the failure is logged but the thread is not
\* cancelled.
PreFairFailed_NoCancel ==
    /\ wpc = "pre_failed"
    /\ wpc' = "chk_fair"
    /\ UNCHANGED <<props, cancel_event, status, mask_layer, assigned,
                   affected_verts, involved_faces, triangulated, fair_abort,
                   bm, mesh, committed, calls, main_vars, host_vars>>

\* Lines 187-189 / 415-417: pre-fairing failed, self.cancel().
PreFairFailed ==
    /\ wpc = "pre_failed"
    /\ cancel_event' = cancel
    /\ wpc' = "chk_fair"
    /\ UNCHANGED <<props, status, mask_layer, assigned, affected_verts,
                   involved_faces, triangulated, fair_abort, bm, mesh,
                   committed, calls, main_vars, host_vars>>

\* The step after the second pass: the update at once in the edit-mode
\* worker (line 205), the check of line 433 in the sculpt worker.
AfterFair == IF op = "MESH" THEN "update" ELSE "chk_update"

\* Mutant of CheckFair: the second pass is entered whatever the cancel flag.
CheckFair_NoCancelCheck ==
    /\ wpc = "chk_fair"
    /\ wpc' = "fair_call"
    /\ UNCHANGED <<props, cancel_event, status, mask_layer, assigned,
                   affected_verts, involved_faces, triangulated, fair_abort,
                   bm, mesh, committed, calls, main_vars, host_vars>>

\* Lines 192 / 420: if not self.is_cancelled().
CheckFair ==
    /\ wpc = "chk_fair"
    /\ wpc' = IF ~is_cancelled THEN "fair_call" ELSE AfterFair
    /\ UNCHANGED <<props, cancel_event, status, mask_layer, assigned,
                   affected_verts, involved_faces, triangulated, fair_abort,
                   bm, mesh, committed, calls, main_vars, host_vars>>

\* Lines 193-198 / 421-426: set the status and call geometry.fair.
FairCall ==
    /\ wpc = "fair_call"
    /\ status' = LblFair
    /\ IF assigned
       THEN FairEnter(FairArgs, CancelSignalArg)
       ELSE UNCHANGED <<fair_abort, calls>>
    /\ wpc' = ReadsAffected("fair_run")
    /\ UNCHANGED <<props, cancel_event, mask_layer, assigned, affected_verts,
                   involved_faces, triangulated, bm, mesh, committed,
                   main_vars, host_vars>>

\* Lines 194-198 / 422-426: geometry.fair returns.
FairCallReturn ==
    /\ wpc = "fair_run"
    /\ \E ok \in BOOLEAN :
          /\ FairReturn(ok, 2)
          /\ wpc' = IF ok THEN AfterFair ELSE "fair_failed"
    /\ UNCHANGED <<props, cancel_event, status, mask_layer, assigned,
                   affected_verts, involved_faces, triangulated, mesh,
                   committed, main_vars, host_vars>>

\* Mutant of FairFailed: the failure handler flips the cancel flag.
FairFailed_Flip ==
    /\ wpc = "fair_failed"
    /\ cancel_event' = ~cancel_event
    /\ wpc' = AfterFair
    /\ UNCHANGED <<props, status, mask_layer, assigned, affected_verts,
                   involved_faces, triangulated, fair_abort, bm, mesh,
                   committed, calls, main_vars, host_vars>>

\* Lines 200-202 / 428-430: fairing failed, self.cancel().
FairFailed ==
    /\ wpc = "fair_failed"
    /\ cancel_event' = cancel
    /\ wpc' = AfterFair
    /\ UNCHANGED <<props, status, mask_layer, assigned, affected_verts,
                   involved_faces, triangulated, fair_abort, bm, mesh,
                   committed, calls, main_vars, host_vars>>

\* ------------------------------------------------ invoke and modal -------

\* MESH_OT_fair_vertices_internal.invoke, lines 85-97: create and start the
\* worker, add the modal handler and the timer, return RUNNING_MODAL.
MeshInvoke ==
    /\ op = "MESH" /\ mpc = "start"
    /\ wpc' = "init"
    /\ timer' = TRUE
    /\ modal_result' = "RUNNING_MODAL"
    /\ mpc' = "idle"
    /\ UNCHANGED <<props, cancel_event, status, mask_layer, assigned,
                   affected_verts, involved_faces, triangulated, fair_abort,
                   bm, mesh, committed, calls, event, header_text, host_vars>>

\* Mutant of SculptInvoke: the tool and the settings are switched before
\* dynamic topology is tested.
SculptInvoke_SwitchFirst ==
    /\ op = "SCULPT" /\ mpc = "start"
    /\ saved_settings' =
           [tool_name |-> tool_settings.tool,
            use_unified_size |-> tool_settings.use_unified_size,
            brush_size |-> tool_settings.brush_size[DrawTool]]
    /\ tool_settings' =
           [tool |-> DrawTool,
            use_unified_size |-> FALSE,
            brush_size |-> [tool_settings.brush_size
                               EXCEPT ![DrawTool] = MaxBrushSize]]
    /\ IF dyntopo
       THEN /\ popups' = popups + 1
            /\ modal_result' = "CANCELLED"
            /\ mpc' = "ended"
       ELSE /\ mpc' = "stroke"
            /\ UNCHANGED <<popups, modal_result>>
    /\ UNCHANGED <<props, cancel_event, worker_vars, event, timer,
                   header_text, dyntopo, strokes, invoke_settings>>

\* SCULPT_OT_fair_vertices_internal.invoke, lines 270-291: refuse under
\* dynamic topology; otherwise remember the tool, switch to the Draw brush,
\* remember and switch off use_unified_size, remember the size of the (now
\* active) brush and set it to 0x7fffffff.
SculptInvoke ==
    /\ op = "SCULPT" /\ mpc = "start"
    /\ IF dyntopo
       THEN /\ popups' = popups + 1
            /\ modal_result' = "CANCELLED"
            /\ mpc' = "ended"
            /\ UNCHANGED <<tool_settings, saved_settings>>
       ELSE /\ saved_settings' =
                   [tool_name |-> tool_settings.tool,
                    use_unified_size |-> tool_settings.use_unified_size,
                    brush_size |-> tool_settings.brush_size[DrawTool]]
            /\ tool_settings' =
                   [tool |-> DrawTool,
                    use_unified_size |-> FALSE,
                    brush_size |-> [tool_settings.brush_size
                                       EXCEPT ![DrawTool] = MaxBrushSize]]
            /\ mpc' = "stroke"
            /\ UNCHANGED <<popups, modal_result>>
    /\ UNCHANGED <<props, cancel_event, worker_vars, event, timer,
                   header_text, dyntopo, strokes, invoke_settings>>

\* Lines 293-304: the null stroke, which pushes an undo step.
SculptNullStroke ==
    /\ op = "SCULPT" /\ mpc = "stroke"
    /\ strokes' = Append(strokes, tool_settings)
    /\ mpc' = "restore"
    /\ UNCHANGED <<props, cancel_event, worker_vars, event, timer,
                   header_text, modal_result, dyntopo, tool_settings,
                   saved_settings, invoke_settings, popups>>

\* Lines 306-323: switch back to the remembered tool, write the remembered
\* use_unified_size and the remembered size onto the active brush, create
\* and start the worker, add the modal handler and the timer.
SculptInvokeStart ==
    /\ op = "SCULPT" /\ mpc = "restore"
    /\ tool_settings' =
           [tool |-> saved_settings.tool_name,
            use_unified_size |-> saved_settings.use_unified_size,
            brush_size |-> [tool_settings.brush_size
                               EXCEPT ![saved_settings.tool_name] =
                                          saved_settings.brush_size]]
    /\ wpc' = "init"
    /\ timer' = TRUE
    /\ modal_result' = "RUNNING_MODAL"
    /\ mpc' = "idle"
    /\ UNCHANGED <<props, cancel_event, status, mask_layer, assigned,
                   affected_verts, involved_faces, triangulated, fair_abort,
                   bm, mesh, committed, calls, event, header_text, dyntopo,
                   saved_settings, strokes, invoke_settings, popups>>

\* modal(), lines 100-106 / 326-332: an event arrives; while the worker is
\* alive and not cancelled the header shows its status.
ModalEvent ==
    /\ mpc = "idle"
    /\ \E e \in Events : event' = e
    /\ IF is_alive /\ ~is_cancelled
       THEN header_text' = <<status>> /\ mpc' = "running"
       ELSE UNCHANGED header_text /\ mpc' = "ending"
    /\ UNCHANGED <<props, cancel_event, worker_vars, timer, modal_result,
                   host_vars>>

\* Mutant of ModalRunning: an ESC press toggles the cancel flag.
ModalRunning_Toggle ==
    /\ mpc = "running"
    /\ cancel_event' = IF event = <<"ESC", "PRESS">> THEN ~cancel_event
                                                     ELSE cancel_event
    /\ modal_result' = "RUNNING_MODAL"
    /\ mpc' = "idle"
    /\ UNCHANGED <<props, worker_vars, event, timer, header_text, host_vars>>

\* Lines 108-112 / 334-338: cancel the worker on an ESC press, stay modal.
ModalRunning ==
    /\ mpc = "running"
    /\ cancel_event' = IF event = <<"ESC", "PRESS">> THEN cancel
                                                     ELSE cancel_event
    /\ modal_result' = "RUNNING_MODAL"
    /\ mpc' = "idle"
    /\ UNCHANGED <<props, worker_vars, event, timer, header_text, host_vars>>

\* Mutant of MeshModalEnd: the timer is left registered.
MeshModalEnd_KeepTimer ==
    /\ op = "MESH" /\ mpc = "ending"
    /\ header_text' = <<>>
    /\ modal_result' = "FINISHED"
    /\ mpc' = "ended"
    /\ UNCHANGED <<props, cancel_event, worker_vars, event, timer, host_vars>>

\* Lines 114-116: clear the header, remove the timer, return FINISHED.
MeshModalEnd ==
    /\ op = "MESH" /\ mpc = "ending"
    /\ header_text' = <<>>
    /\ timer' = FALSE
    /\ modal_result' = "FINISHED"
    /\ mpc' = "ended"
    /\ UNCHANGED <<props, cancel_event, worker_vars, event, host_vars>>

\* Mutant of SculptModalEnd: the sculpt operator always returns FINISHED.
SculptModalEnd_AlwaysFinished ==
    /\ op = "SCULPT" /\ mpc = "ending"
    /\ header_text' = <<>>
    /\ timer' = FALSE
    /\ modal_result' = "FINISHED"
    /\ mpc' = "ended"
    /\ UNCHANGED <<props, cancel_event, worker_vars, event, host_vars>>

\* Lines 340-342: clear the header, remove the timer, return CANCELLED when
\* the worker is cancelled and FINISHED otherwise.
SculptModalEnd ==
    /\ op = "SCULPT" /\ mpc = "ending"
    /\ header_text' = <<>>
    /\ timer' = FALSE
    /\ modal_result' = IF is_cancelled THEN "CANCELLED" ELSE "FINISHED"
    /\ mpc' = "ended"
    /\ UNCHANGED <<props, cancel_event, worker_vars, event, host_vars>>

\* ------------------------------------------------- the specification -----

Next ==
    \/ MeshInvoke
    \/ SculptInvoke
    \/ SculptNullStroke
    \/ SculptInvokeStart
    \/ ModalEvent
    \/ ModalRunning
    \/ MeshModalEnd
    \/ SculptModalEnd
    \/ MeshRunInit
    \/ MeshCheckAffected
    \/ MeshAffected
    \/ MeshCheckTriangulate
    \/ MeshTriangulate
    \/ MeshUpdate
    \/ SculptRunInit
    \/ SculptCheckAffected
    \/ SculptAffected
    \/ SculptCheckEmpty
    \/ SculptEmptyCancel
    \/ SculptCheckUpdate
    \/ SculptUpdate
    \/ CheckPreFair
    \/ PreFairCall
    \/ PreFairReturn
    \/ PreFairFailed
    \/ CheckFair
    \/ FairCall
    \/ FairCallReturn
    \/ FairFailed

Spec == Init /\ [][Next]_vars

\* The steps of the worker thread (run(), lines 145-207 and 377-437).
WorkerStep ==
    \/ MeshRunInit
    \/ MeshCheckAffected
    \/ MeshAffected
    \/ MeshCheckTriangulate
    \/ MeshTriangulate
    \/ MeshUpdate
    \/ SculptRunInit
    \/ SculptCheckAffected
    \/ SculptAffected
    \/ SculptCheckEmpty
    \/ SculptEmptyCancel
    \/ SculptCheckUpdate
    \/ SculptUpdate
    \/ CheckPreFair
    \/ PreFairCall
    \/ PreFairReturn
    \/ PreFairFailed
    \/ CheckFair
    \/ FairCall
    \/ FairCallReturn
    \/ FairFailed

\* The steps of the interactive thread: invoke() and modal() (lines 85-116
\* and 270-342).
MainStep ==
    \/ MeshInvoke
    \/ SculptInvoke
    \/ SculptNullStroke
    \/ SculptInvokeStart
    \/ ModalEvent
    \/ ModalRunning
    \/ MeshModalEnd
    \/ SculptModalEnd

\* The initial states examined under the fair scheduling.  Lines 311-342 and
\* run() read no tool setting, so the sculpt operator starts here from one
\* of the user's settings: the Grab tool with use_unified_size on, the one
\* in which invoke changes both the tool and the setting.
FairInit ==
    /\ Init
    /\ op = "SCULPT" =>
          (tool_settings.tool = GrabTool /\ tool_settings.use_unified_size)

\* The program under its scheduling: a started thread keeps running and every
\* geometry.fair call returns (the worker is never stopped for ever at a
\* step it can take), and the 0.1 s timer of lines 95 / 322 keeps delivering
\* events to modal(), which runs to its return.
FairSpec ==
    FairInit /\ [][Next]_vars /\ WF_vars(WorkerStep) /\ WF_vars(MainStep)

\* ------------------------------------------------------- properties ------

\* The mesh with both passes written onto the affected vertices (and the
\* involved faces triangulated, when triangulation ran).
FullyUpdatedMesh ==
    [pos |-> [v \in Verts |-> IF v \in affected_verts THEN 2 ELSE 0],
     tri |-> IF triangulated THEN involved_faces ELSE {}]

\* Both calls of geometry.fair were made and returned true.
BothPassesSucceeded ==
    /\ Len(calls) = 2
    /\ calls[1].result = "true"
    /\ calls[2].result = "true"

\* The worker has reached its final step: the update of line 205 in the
\* edit-mode worker, the check of line 433 that guards the update in the
\* sculpt worker.
AtFinalStep ==
    \/ op = "MESH" /\ wpc = "update"
    \/ op = "SCULPT" /\ wpc = "chk_update"

\* C1: when a worker's run has ended, the target mesh is either fully updated
\* with the result of both passes or exactly as it was before the worker
\* started; it never carries only the triangulation, only the pre-fair pass,
\* or the pre-fair pass plus a failed second pass.
C1_AllOrNothing ==
    wpc = "done" =>
        \/ mesh = InitialMesh
        \/ BothPassesSucceeded /\ mesh = FullyUpdatedMesh

\* C2: when the cancel flag is set as the worker reaches its final step, the
\* final mesh commit (bmesh.update_edit_mesh, bm.to_mesh / mesh.update) is
\* not executed.
C2_CancelledSkipsCommit ==
    [][(is_cancelled /\ AtFinalStep) => (committed' = committed)]_vars

\* C3: a pre-fair call that returned false leaves the worker cancelled and
\* no second call of geometry.fair is ever made in that run; a second call
\* that returned false leaves the worker cancelled.
C3_FailedPassCancels ==
    /\ (Len(calls) >= 1 /\ calls[1].result = "false")
          => /\ Len(calls) = 1
             /\ wpc # "pre_failed" => is_cancelled
    /\ (Len(calls) = 2 /\ calls[2].result = "false")
          => (wpc # "fair_failed" => is_cancelled)

\* C3 witness: a run has ended after its pre-fair call returned false.
C3_Witness ==
    /\ wpc = "done"
    /\ Len(calls) = 1
    /\ calls[1].result = "false"
    /\ is_cancelled

\* C4: a run that ended neither cancelled nor failed called geometry.fair
\* exactly twice on the same vertices: first with POS and UNIFORM vertex and
\* loop weights, then with the operator's continuity and the VORONOI / COTAN
\* weights; the second call is never made before the first returned true.
C4_TwoPassesInOrder ==
    /\ Len(calls) <= 2
    /\ Len(calls) = 2 => calls[1].result = "true"
    /\ (wpc = "done" /\ ~is_cancelled) =>
          /\ Len(calls) = 2
          /\ calls[1].order = 1
          /\ calls[1].vertex_weight = "UNIFORM"
          /\ calls[1].loop_weight = "UNIFORM"
          /\ calls[2].order = continuity
          /\ calls[2].vertex_weight = "VORONOI"
          /\ calls[2].loop_weight = "COTAN"
          /\ calls[2].verts = calls[1].verts
          /\ calls[2].result = "true"

\* C4 witness: an uncancelled run with CURVATURE continuity has ended.
C4_Witness ==
    /\ wpc = "done"
    /\ ~is_cancelled
    /\ continuity = CURVATURE
    /\ Len(calls) = 2

\* C5: a run whose affected-vertex set was determined empty calls
\* geometry.fair for neither pass, leaves the mesh as it was and ends
\* cancelled.
C5_EmptySetIsNoOp ==
    (wpc = "done" /\ assigned /\ affected_verts = {}) =>
        /\ Len(calls) = 0
        /\ mesh = InitialMesh
        /\ is_cancelled

\* C6: a pass entered with the cancel flag already set (also when cancel()
\* landed after the worker's is_cancelled() check) returns false, and neither
\* the positions of the BMesh it works on nor those of the target mesh differ
\* at its return from what they were at its entry.
C6_CancelBeforePass ==
    \A i \in 1..Len(calls) :
        (calls[i].cancelled_at_entry /\ calls[i].result # "running") =>
            /\ calls[i].result = "false"
            /\ calls[i].pos_at_return = calls[i].pos_at_entry
            /\ calls[i].mesh_at_return = calls[i].mesh_at_entry

\* C6 witness: cancel() landed between the check before the second pass and
\* the entry of geometry.fair, after a pre-fair pass that wrote positions.
C6_Witness ==
    /\ Len(calls) = 2
    /\ calls[2].cancelled_at_entry
    /\ calls[2].result = "false"
    /\ calls[2].pos_at_entry # InitialMesh.pos

\* C7: once the cancel flag is set no step of the operator or of the worker
\* clears it.
C7_CancelMonotonic == [][is_cancelled => is_cancelled']_vars

\* C7 witness: the flag was set by an ESC press while the second pass had
\* not begun, and is still set when worker and operator have ended.
C7_Witness ==
    /\ wpc = "done"
    /\ mpc = "ended"
    /\ is_cancelled
    /\ Len(calls) = 1
    /\ calls[1].result = "true"

\* C8: in the edit-mode worker the topology of the BMesh changes only in the
\* triangulation step, which is entered only with the triangulate flag true
\* and the cancel flag read unset, and only before the first geometry.fair
\* call; once that call has started the affected-vertex list is not
\* reassigned, and the second call gets the list the first got.
C8_TriangulationBeforeFairing ==
    [][/\ (bm'.tri # bm.tri \/ triangulated' # triangulated)
              => (op = "MESH" /\ triangulate /\ wpc = "tri"
                                             /\ Len(calls) = 0)
       /\ (wpc' = "tri" /\ wpc # "tri") => (triangulate /\ ~is_cancelled)
       /\ Len(calls) >= 1 => affected_verts' = affected_verts
       /\ Len(calls') = 2 => calls'[2].verts = calls'[1].verts]_vars

\* C8 witness: a run triangulated faces and then made both calls.
C8_Witness ==
    /\ op = "MESH"
    /\ triangulated
    /\ bm.tri # {}
    /\ Len(calls) = 2
    /\ wpc = "done"

\* The faces linked to an affected vertex, read off the strip.
LinkedFaces == {f \in Faces : \E v \in affected_verts : f <= v /\ v <= f + 2}

\* The linked faces with a neighbour in the strip that is not linked.
LinkedBoundary ==
    {f \in LinkedFaces :
        \/ f - 1 \in Faces \ LinkedFaces
        \/ f + 1 \in Faces \ LinkedFaces}

\* The faces at most k faces away from a face of the linked boundary.
WithinRings(k) ==
    {g \in Faces : \E b \in LinkedBoundary : g - b <= k /\ b - g <= k}

\* C9: the faces handed to triangulation are the faces linked to an affected
\* vertex plus the faces within 0 (POS), 1 (TANGENT) or 2 (CURVATURE) rings
\* of the boundary faces of those: for POS exactly the linked faces, and for
\* every order a superset of them.
C9_TriangulatedFaces ==
    triangulated =>
        /\ continuity = POS => involved_faces = LinkedFaces
        /\ continuity = TANGENT =>
              involved_faces = LinkedFaces \cup WithinRings(1)
        /\ continuity = CURVATURE =>
              involved_faces = LinkedFaces \cup WithinRings(2)
        /\ LinkedFaces \subseteq involved_faces

\* C9 witness: with CURVATURE the rings added faces that are not linked to
\* an affected vertex.
C9_Witness ==
    /\ triangulated
    /\ continuity = CURVATURE
    /\ LinkedFaces # {}
    /\ involved_faces # LinkedFaces
    /\ involved_faces # Faces

\* The place of a status label in the fixed order of the phases.
PhaseRank(label) ==
    CASE label = "Initializing BMesh" -> 1
      [] label = "Determining which vertices are affected" -> 2
      [] label = "Triangulating involved faces" -> 3
      [] label = "[Pre-Fairing] {}" -> 4
      [] label = "[Fairing] {}" -> 5
      [] label = "Updating the mesh" -> 6
      [] OTHER -> 0

\* C10: the status label never goes back to the label of an earlier phase.
C10_StatusMonotonic == [][PhaseRank(status') >= PhaseRank(status)]_vars

\* C10 witness: a run went through every phase and a polling observer read
\* the pre-fairing label into the header on its way.
C10_Witness ==
    /\ status = "Updating the mesh"
    /\ triangulated
    /\ Len(calls) = 2
    /\ header_text = <<"[Pre-Fairing] {}">>

\* The worker calls cancel() in this step with the flag already set.
RepeatedWorkerCancel ==
    /\ is_cancelled
    /\ wpc \in {"empty_cancel", "pre_failed", "fair_failed"}
    /\ wpc' # wpc

\* modal() calls cancel() in this step with the flag already set.
RepeatedModalCancel ==
    /\ is_cancelled
    /\ mpc = "running"
    /\ event = <<"ESC", "PRESS">>
    /\ mpc' # mpc

\* C11: a cancel() made when the flag is already set, by the worker after a
\* failed pass or by modal() on an ESC press, changes nothing but the
\* caller's own position, which moves on as it does after a first call; the
\* run therefore goes on exactly as a run without the repeated call.
C11_CancelIdempotent ==
    [][/\ RepeatedWorkerCancel =>
             /\ wpc' = (CASE wpc = "empty_cancel" -> "chk_pre"
                          [] wpc = "pre_failed" -> "chk_fair"
                          [] wpc = "fair_failed" ->
                                IF op = "MESH" THEN "update"
                                               ELSE "chk_update")
             /\ UNCHANGED <<props, cancel_event, status, mask_layer,
                            assigned, affected_verts, involved_faces,
                            triangulated, fair_abort, bm, mesh, committed,
                            calls, main_vars, host_vars>>
       /\ RepeatedModalCancel =>
             /\ mpc' = "idle"
             /\ modal_result' = "RUNNING_MODAL"
             /\ UNCHANGED <<props, cancel_event, worker_vars, event, timer,
                            header_text, host_vars>>]_vars

\* C11 witness: the second pass was entered with the flag already set by an
\* ESC press, returned false, and the worker's own cancel() followed.
C11_Witness ==
    /\ wpc = "done"
    /\ mpc = "ended"
    /\ Len(calls) = 2
    /\ calls[2].cancelled_at_entry
    /\ calls[2].result = "false"
    /\ is_cancelled

\* C12: in the sculpt operator, when modal() has returned CANCELLED the
\* worker has not written the mesh and is not about to, and when the worker
\* has written the mesh the result modal() returns is FINISHED.
C12_ResultMatchesMesh ==
    (op = "SCULPT" /\ mpc = "ended" /\ wpc # "unstarted") =>
        /\ modal_result = "CANCELLED" => (~committed /\ wpc # "update")
        /\ committed => modal_result = "FINISHED"

\* The worker begins a fairing stage in this step: triangulation, the
\* pre-fair pass or the requested-continuity pass.
BeginsStage ==
    /\ wpc \in {"tri", "pre_call", "fair_call"}
    /\ wpc' # wpc

\* C13: with the cancel flag set the worker passes no check into a fairing
\* stage, so the only stage it can still begin is the one whose check it had
\* passed before; after that stage every later one is skipped.  The call of
\* cancel() by modal() moves nothing of the worker: a stage in progress goes
\* on to its end.
C13_CancelLatencyOneStage ==
    [][/\ (is_cancelled /\ wpc' # wpc)
              => wpc' \notin {"tri", "pre_call", "fair_call"}
       /\ (is_cancelled /\ BeginsStage)
              => wpc' \in {"chk_pre", "pre_run", "fair_run"}
       /\ (mpc = "running" /\ mpc' # mpc) => UNCHANGED worker_vars]_vars

\* C13 witness: the pre-fair pass was begun with the flag set after its
\* check, and the run ended without a second pass and without a commit.
C13_Witness ==
    /\ op = "SCULPT"
    /\ wpc = "done"
    /\ Len(calls) = 1
    /\ calls[1].cancelled_at_entry
    /\ ~committed

\* The terminal result of modal(): FINISHED for the edit-mode operator,
\* CANCELLED or FINISHED for the sculpt operator by the cancel flag.
TerminalResult ==
    IF op = "SCULPT" /\ is_cancelled THEN "CANCELLED" ELSE "FINISHED"

\* C14: on an event modal() goes on to return RUNNING_MODAL exactly when the
\* worker is alive and not cancelled; only on that path does it call
\* cancel(), and only for an ESC press; on the other path it clears the
\* header, removes the timer and returns the terminal result.
C14_ModalHandler ==
    [][/\ (mpc = "idle" /\ mpc' # mpc) =>
             /\ mpc' \in {"running", "ending"}
             /\ mpc' = "running" <=> (is_alive /\ ~is_cancelled)
             /\ UNCHANGED <<cancel_event, timer, modal_result>>
       /\ (mpc = "running" /\ mpc' # mpc) =>
             /\ mpc' = "idle"
             /\ modal_result' = "RUNNING_MODAL"
             /\ UNCHANGED <<timer, header_text>>
             /\ cancel_event' =
                   (cancel_event \/ event = <<"ESC", "PRESS">>)
       /\ (mpc = "ending" /\ mpc' # mpc) =>
             /\ mpc' = "ended"
             /\ header_text' = <<>>
             /\ timer' = FALSE
             /\ modal_result' = TerminalResult
             /\ UNCHANGED cancel_event
       /\ (mpc \notin {"running"} /\ UNCHANGED wpc)
             => UNCHANGED cancel_event]_vars

\* C14 witness: the sculpt operator has ended with CANCELLED on the event
\* after an ESC press, its timer removed, the worker having made both calls.
C14_Witness ==
    /\ op = "SCULPT"
    /\ mpc = "ended"
    /\ event = <<"ESC", "RELEASE">>
    /\ modal_result = "CANCELLED"
    /\ ~timer
    /\ Len(calls) = 2
    /\ calls[2].result = "true"

\* C16: when modal() has returned its terminal result the worker thread is
\* no longer alive.
C16_WorkerEndedWithOperator ==
    (mpc = "ended" /\ wpc # "unstarted") => ~is_alive

\* The positions of the edit-mode run() that read affected_verts, or lie
\* between such reads.
ReadingPositions ==
    {"tri", "pre_call", "pre_run", "pre_failed", "fair_call", "fair_run",
     "fair_failed"}

\* C17: in the edit-mode worker no step reads affected_verts while it is
\* unbound: the thread never ends by the NameError, and the steps that read
\* the list are reached only with the list bound.
C17_AffectedVertsBound ==
    op = "MESH" =>
        /\ wpc # "raised"
        /\ wpc \in ReadingPositions => assigned

\* C17 witness: cancel() landed before the check of line 156, and the run
\* ended with affected_verts never bound.
C17_Witness ==
    /\ op = "MESH"
    /\ wpc = "done"
    /\ ~assigned
    /\ is_cancelled

\* C18: under dynamic topology the only step of the sculpt operator is the
\* one in which invoke shows the popup and returns CANCELLED; no tool
\* setting changes, no stroke is applied, the worker is never started, and
\* neither modal handler nor timer is registered.
C18_DyntopoRefused ==
    [][dyntopo =>
          /\ UNCHANGED <<tool_settings, saved_settings, strokes, wpc, timer,
                         cancel_event, mesh, header_text>>
          /\ mpc' # mpc =>
                /\ mpc = "start"
                /\ mpc' = "ended"
                /\ modal_result' = "CANCELLED"
                /\ popups' = popups + 1]_vars

\* C18 witness: invoke has returned CANCELLED under dynamic topology, with
\* the Grab tool active.
C18_Witness ==
    /\ dyntopo
    /\ mpc = "ended"
    /\ modal_result = "CANCELLED"
    /\ popups = 1
    /\ tool_settings.tool = GrabTool

\* C19: once the sculpt worker has been started, the active tool,
\* use_unified_size and the size of the active brush are what they were when
\* invoke began.
C19_SettingsRestored ==
    (op = "SCULPT" /\ wpc # "unstarted") =>
        /\ tool_settings.tool = invoke_settings.tool
        /\ tool_settings.use_unified_size = invoke_settings.use_unified_size
        /\ tool_settings.brush_size[tool_settings.tool] =
              invoke_settings.brush_size[invoke_settings.tool]

\* The operation is over: invoke or modal has returned a terminal result and
\* the worker, if one was started, has reached the end of run().
Terminated ==
    /\ mpc = "ended"
    /\ modal_result \in {"FINISHED", "CANCELLED"}
    /\ wpc \in {"unstarted", "done"}

\* C15: under the fair scheduling every operation terminates and stays
\* terminated, run() never ends by an unhandled fault, and the timer is
\* registered from the end of invoke until the very step in which modal
\* returns its terminal result, where it is removed, once.
C15_TerminatesTimerRemovedOnce ==
    /\ <>[]Terminated
    /\ [](wpc # "raised")
    /\ [](timer <=> mpc \in {"idle", "running", "ending"})
    /\ [][(timer /\ ~timer') =>
             /\ mpc = "ending" /\ mpc' = "ended"
             /\ modal_result' \in {"FINISHED", "CANCELLED"}]_vars
    /\ [][~timer => (timer' => (mpc \in {"start", "restore"} /\ mpc' = "idle"))]_vars

\* C15 witness: a sculpt operation cancelled during the second pass has
\* terminated with the timer removed.
C15_Witness ==
    /\ op = "SCULPT"
    /\ Terminated
    /\ ~timer
    /\ Len(calls) = 2
    /\ calls[2].result = "false"
    /\ modal_result = "CANCELLED"

====
